---- MODULE Spec2Model ----
(***************************************************************************)
(* SkyHelper-Networth, src/index.js: the three public entry points         *)
(* getNetworth, getItemNetworth and getPrices, and the private parsePrices *)
(* they share.  JavaScript is single threaded: every stretch of code       *)
(* between two awaits runs to completion and is one action here.           *)
(*                                                                         *)
(* Spec     - one caller that makes one call after another, with every     *)
(*            item, every options.prices value P and every fetch outcome.  *)
(* SpecConc - concurrent calls that were all given the caller's one        *)
(*            catalog object P.                                            *)
(* SpecNorm - the two normalizations (supplied path, fetched path) applied *)
(*            to one raw catalog, and applied once more to their results.  *)
(*                                                                         *)
(* parseItems, calculateNetworth and calculateItemNetworth live in         *)
(* ./helper and are steps that take the prices object and return.          *)
(***************************************************************************)
EXTENDS Naturals, Sequences, FiniteSets, TLC

VARIABLES P, P0, calls, norm

vars == <<P, P0, calls, norm>>

(***************************************************************************)
(* Bounds                                                                  *)
(***************************************************************************)
MaxKeys == 3        \* keys of a raw catalog under SpecNorm
MaxSharedKeys == 2  \* keys of the shared caller-held catalog under Spec
MaxFetchKeys == 1   \* keys of a fetched snapshot under Spec
NumCalls == 2       \* concurrent calls under Spec

Calls == 1..NumCalls

\* Item ids: three spellings of one id and two of another.
Keys == {"ab", "Ab", "AB", "c", "C"}

PriceNumbers == {1, 2}

(***************************************************************************)
(* JavaScript values                                                       *)
(***************************************************************************)
JSUndefined == [t |-> "undefined", s |-> "", n |-> 0]
JSNull == [t |-> "null", s |-> "", n |-> 0]
JSNum(n) == [t |-> "number", s |-> "", n |-> n]
JSStr(s) == [t |-> "string", s |-> s, n |-> 0]
JSBool(b) == [t |-> "boolean", s |-> "", n |-> IF b THEN 1 ELSE 0]
\* an entry of the old prices.json format: an object with a numeric price field
PriceObject(n) == [t |-> "object", s |-> "", n |-> n]
\* a field an object does not have
Absent == [t |-> "absent", s |-> "", n |-> 0]

\* a value of options.prices: a primitive, or an object with ordered own keys
Primitive(v) == [t |-> v.t, s |-> v.s, n |-> v.n, entries |-> <<>>]
Object(entries) == [t |-> "object", s |-> "", n |-> 0, entries |-> entries]

\* ToBoolean
Truthy(v) ==
  CASE v.t = "undefined" -> FALSE
    [] v.t = "null" -> FALSE
    [] v.t = "absent" -> FALSE
    [] v.t = "number" -> v.n # 0
    [] v.t = "string" -> v.s # ""
    [] OTHER -> TRUE

\* v instanceof Object, for the values above
InstanceofObject(v) == v.t = "object"

\* String.prototype.toLowerCase on the ids used here
ToLower(k) ==
  CASE k = "Ab" -> "ab"
    [] k = "AB" -> "ab"
    [] k = "C" -> "c"
    [] OTHER -> k

(***************************************************************************)
(* Objects: own string keys in insertion order, each with a value          *)
(***************************************************************************)
Entry(k, v) == [k |-> k, v |-> v]

KeysOf(entries) == [i \in 1..Len(entries) |-> entries[i].k]

HasKey(entries, k) == \E i \in 1..Len(entries) : entries[i].k = k

\* entries[k]: the value of own key k, undefined when there is none
Lookup(entries, k) ==
  IF HasKey(entries, k)
  THEN entries[CHOOSE i \in 1..Len(entries) : entries[i].k = k].v
  ELSE JSUndefined

\* Put as it would be if an existing key were never overwritten
PutKeepFirst(entries, k, v) ==
  IF HasKey(entries, k) THEN entries ELSE Append(entries, Entry(k, v))

\* entries[k] = v: an existing key keeps its place, a new key is appended
Put(entries, k, v) ==
  IF HasKey(entries, k)
  THEN [i \in 1..Len(entries) |->
          IF entries[i].k = k THEN Entry(k, v) ELSE entries[i]]
  ELSE Append(entries, Entry(k, v))

\* Object.keys(p) for a truthy p: a number has none, a one-character string
\* has the index "0"
ObjectKeys(p) ==
  CASE p.t = "object" -> KeysOf(p.entries)
    [] p.t = "string" -> IF p.s = "" THEN <<>> ELSE <<"0">>
    [] OTHER -> <<>>

\* p[k]
Get(p, k) ==
  CASE p.t = "object" -> Lookup(p.entries, k)
    [] p.t = "string" -> IF k = "0" /\ p.s # "" THEN JSStr(p.s) ELSE JSUndefined
    [] OTHER -> JSUndefined

(***************************************************************************)
(* Errors                                                                  *)
(***************************************************************************)
NoError == [kind |-> "none", msg |-> ""]
NetworthError(msg) == [kind |-> "NetworthError", msg |-> msg]
PricesError(msg) == [kind |-> "PricesError", msg |-> msg]
\* thrown by the runtime: reading a property of undefined
TypeError == [kind |-> "TypeError", msg |-> "Cannot read properties of undefined"]

(***************************************************************************)
(* parsePrices (index.js 33-41)                                            *)
(***************************************************************************)
\* `!prices instanceof Object` parses as (!prices) instanceof Object: the
\* boolean !prices is no object, so this operand is false for every prices
NotPricesInstanceofObject(prices) == InstanceofObject(JSBool(~Truthy(prices)))

\* the loop of line 37 as it would be with `+=` in place of `=`
RECURSIVE RewriteFromAccumulate(_, _, _)
RewriteFromAccumulate(entries, keys, i) ==
  IF i > Len(keys) THEN entries
  ELSE LET old == Lookup(entries, ToLower(keys[i]))
           add == Lookup(entries, keys[i])
           sum == IF old.t = "number" /\ add.t = "number"
                  THEN JSNum(old.n + add.n) ELSE add
       IN  RewriteFromAccumulate(Put(entries, ToLower(keys[i]), sum), keys, i + 1)

\* for (id of Object.keys(prices)) prices[id.toLowerCase()] = prices[id];
\* the keys are listed once, before the loop; the values are read as it runs.
\* (id is an undeclared, hence global, variable; the loop has no await, so
\* no other call runs while it holds a value.)
RECURSIVE RewriteFrom(_, _, _)
RewriteFrom(entries, keys, i) ==
  IF i > Len(keys) THEN entries
  ELSE RewriteFrom(Put(entries, ToLower(keys[i]), Lookup(entries, keys[i])),
                   keys, i + 1)

RewriteKeys(prices) ==
  Object(RewriteFrom(prices.entries, KeysOf(prices.entries), 1))

\* The synchronous part of parsePrices: err is what it throws, obj is the
\* argument object as the call leaves it, fetch says getPrices() is awaited.
ParsePrices(prices) ==
  IF ~Truthy(prices)
  THEN [err |-> NoError, obj |-> prices, fetch |-> TRUE]
  ELSE LET keys == ObjectKeys(prices)
           firstVal == IF Len(keys) > 0 THEN Get(prices, keys[1]) ELSE JSUndefined
       IN  IF NotPricesInstanceofObject(prices) \/ InstanceofObject(firstVal)
           THEN [err |-> NetworthError("Invalid prices data provided"),
                 obj |-> prices, fetch |-> FALSE]
           ELSE IF Len(keys) = 0
           THEN [err |-> TypeError, obj |-> prices, fetch |-> FALSE]
           ELSE IF keys[1] # ToLower(keys[1])
           THEN [err |-> NoError, obj |-> RewriteKeys(prices), fetch |-> FALSE]
           ELSE [err |-> NoError, obj |-> prices, fetch |-> FALSE]

(***************************************************************************)
(* getPrices (index.js 47-74)                                              *)
(***************************************************************************)
\* what axios.get settles with
FetchOk(data) == [kind |-> "ok", status |-> 200, data |-> data]
FetchHttpError(status) == [kind |-> "http", status |-> status, data |-> Object(<<>>)]
FetchTransportError == [kind |-> "transport", status |-> 0, data |-> Object(<<>>)]

HttpStatuses == {404, 503}

\* the status as the template string prints it
StatusText(status) ==
  CASE status = 404 -> "404"
    [] status = 503 -> "503"
    [] OTHER -> "0"

\* the catch clause as it would be if it never read the response's status
CatchStatusOfError(resp) == "Unknown"

\* err?.response?.status || 'Unknown'
CatchStatus(resp) ==
  IF resp.kind = "http" /\ resp.status # 0 THEN StatusText(resp.status)
  ELSE "Unknown"

\* priceObject.price
PriceField(v) == IF v.t = "object" THEN JSNum(v.n) ELSE JSUndefined

\* lines 54-57: a new object, prices[item.toLowerCase()] = priceObject.price
RECURSIVE ExtractFrom(_, _, _)
ExtractFrom(data, acc, i) ==
  IF i > Len(data) THEN acc
  ELSE ExtractFrom(data, Put(acc, ToLower(data[i].k), PriceField(data[i].v)), i + 1)

\* lines 62-65 as they would be without the toLowerCase call
RECURSIVE LowercaseFromKeepCase(_, _, _)
LowercaseFromKeepCase(data, acc, i) ==
  IF i > Len(data) THEN acc
  ELSE LowercaseFromKeepCase(data, Put(acc, data[i].k, data[i].v), i + 1)

\* lines 62-65: a new object, prices[item.toLowerCase()] = price
RECURSIVE LowercaseFrom(_, _, _)
LowercaseFrom(data, acc, i) ==
  IF i > Len(data) THEN acc
  ELSE LowercaseFrom(data, Put(acc, ToLower(data[i].k), data[i].v), i + 1)

\* lines 52-70 as they would be if only the old prices.json format were read
GetPricesDataOldFormat(data) ==
  IF Len(ObjectKeys(data)) = 0 THEN [thrown |-> TRUE, cat |-> data]
  ELSE [thrown |-> FALSE, cat |-> Object(ExtractFrom(data.entries, <<>>, 1))]

\* lines 52-70, on the response's data
GetPricesData(data) ==
  LET keys == ObjectKeys(data)
      firstVal == IF Len(keys) > 0 THEN Get(data, keys[1]) ELSE JSUndefined
  IN  IF InstanceofObject(firstVal)
      THEN [thrown |-> FALSE, cat |-> Object(ExtractFrom(data.entries, <<>>, 1))]
      ELSE IF Len(keys) = 0
      THEN [thrown |-> TRUE, cat |-> data]
      ELSE IF keys[1] # ToLower(keys[1])
      THEN [thrown |-> FALSE, cat |-> Object(LowercaseFrom(data.entries, <<>>, 1))]
      ELSE [thrown |-> FALSE, cat |-> data]

\* getPrices once the request has settled with resp: everything thrown in
\* the try block, the TypeError of line 61 included, leaves as a PricesError
GetPrices(resp) ==
  LET r == GetPricesData(resp.data)
      failed(status) ==
        [err |-> PricesError("Failed to retrieve prices with status code"),
         status |-> status, cat |-> Primitive(JSUndefined)]
  IN  IF resp.kind # "ok" THEN failed(CatchStatus(resp))
      ELSE IF r.thrown THEN failed("Unknown")
      ELSE [err |-> NoError, status |-> "", cat |-> r.cat]

(***************************************************************************)
(* Inputs                                                                  *)
(***************************************************************************)
\* entry values of a raw catalog (SpecNorm), of the caller-held catalog and of
\* a fetched snapshot (Spec, SpecConc): bare numbers and price objects
RawValues ==
  {JSNum(n) : n \in PriceNumbers} \cup {PriceObject(n) : n \in PriceNumbers}
SharedValues == {JSNum(n) : n \in PriceNumbers} \cup {PriceObject(1)}
FetchValues == {JSNum(1), PriceObject(1)}

DistinctKeys(entries) ==
  \A i, j \in 1..Len(entries) : entries[i].k = entries[j].k => i = j

\* every object of at most max own keys, in every key order
ObjectsUpTo(max, values) ==
  UNION {{Object(e) : e \in {x \in [1..len -> [k : Keys, v : values]] : DistinctKeys(x)}}
         : len \in 0..max}

AllNumbers(obj) == \A i \in 1..Len(obj.entries) : obj.entries[i].v.t = "number"
AllPriceObjects(obj) == \A i \in 1..Len(obj.entries) : obj.entries[i].v.t = "object"

\* items: undefined, null, and objects with or without a tag and an exp field
ItemUndefined == [t |-> "undefined", tag |-> Absent, exp |-> Absent]
ItemNull == [t |-> "null", tag |-> Absent, exp |-> Absent]
ItemObject(tag, exp) == [t |-> "object", tag |-> tag, exp |-> exp]

Items ==
  {ItemUndefined, ItemNull}
    \cup {ItemObject(tag, exp) :
            tag \in {Absent, JSStr(""), JSStr("SKYBLOCK_MENU")},
            exp \in {Absent, JSNum(0), JSNum(100)}}

\* item?.tag, item?.exp
OptionalField(v) == IF v.t = "absent" THEN JSUndefined ELSE v

\* line 28: !item?.tag && !item?.exp
ItemRejected(item) ==
  ~Truthy(OptionalField(item.tag)) /\ ~Truthy(OptionalField(item.exp))

\* what the caller may hold as options.prices
SharedPrices ==
  {Primitive(JSNull), Primitive(JSNum(5)), Primitive(JSStr("x"))}
    \cup ObjectsUpTo(MaxSharedKeys, SharedValues)

\* what the request for prices.json may settle with
FetchOutcomes ==
  {FetchOk(d) : d \in ObjectsUpTo(MaxFetchKeys, FetchValues)}
    \cup {FetchHttpError(st) : st \in HttpStatuses}
    \cup {FetchTransportError}

(***************************************************************************)
(* Calls                                                                   *)
(***************************************************************************)
NoResponse == [kind |-> "none", status |-> 0, data |-> Object(<<>>)]

\* pc: idle, fetching (awaiting axios.get), havePrices (parsePrices has
\* resolved), haveItems (parseItems has resolved), valuating (inside
\* calculateNetworth / calculateItemNetworth), done, failed.
\* src says which object the call holds as prices: the caller's (P) or the
\* one getPrices returned (cat).
IdleCall ==
  [pc |-> "idle", kind |-> "none", item |-> ItemUndefined, supplied |-> FALSE,
   fetches |-> 0, resp |-> NoResponse, err |-> NoError, status |-> "",
   src |-> "none", cat |-> Primitive(JSUndefined),
   parsed |-> FALSE, valued |-> FALSE]

\* options?.prices
PricesOption(supplied) == IF supplied THEN P ELSE Primitive(JSUndefined)

\* the call after parsePrices has run up to its return statement
AfterParsePrices(call, r) ==
  IF r.err.kind # "none" THEN [call EXCEPT !.pc = "failed", !.err = r.err]
  ELSE IF r.fetch THEN [call EXCEPT !.pc = "fetching", !.fetches = @ + 1]
  ELSE [call EXCEPT !.pc = "havePrices", !.src = "supplied"]

\* lines 14-16: getNetworth up to `await parsePrices(options?.prices)`
GetNetworth(c, supplied) ==
  /\ calls[c].pc = "idle"
  /\ LET r == ParsePrices(PricesOption(supplied))
         call == [IdleCall EXCEPT !.kind = "getNetworth", !.supplied = supplied]
     IN  /\ calls' = [calls EXCEPT ![c] = AfterParsePrices(call, r)]
         /\ P' = IF supplied THEN r.obj ELSE P
  /\ UNCHANGED <<P0, norm>>

\* lines 27-29: getItemNetworth up to `await parsePrices(options?.prices)`
GetItemNetworth(c, item, supplied) ==
  /\ calls[c].pc = "idle"
  /\ LET call == [IdleCall EXCEPT !.kind = "getItemNetworth", !.item = item,
                                  !.supplied = supplied]
     IN  IF ItemRejected(item)
         THEN /\ calls' = [calls EXCEPT ![c] =
                   [call EXCEPT !.pc = "failed",
                                !.err = NetworthError("Invalid item provided")]]
              /\ P' = P
         ELSE LET r == ParsePrices(PricesOption(supplied))
              IN  /\ calls' = [calls EXCEPT ![c] = AfterParsePrices(call, r)]
                  /\ P' = IF supplied THEN r.obj ELSE P
  /\ UNCHANGED <<P0, norm>>

\* lines 47-49: getPrices called by the user, up to `await axios.get(...)`
GetPricesCall(c) ==
  /\ calls[c].pc = "idle"
  /\ calls' = [calls EXCEPT ![c] =
        [IdleCall EXCEPT !.kind = "getPrices", !.pc = "fetching", !.fetches = 1]]
  /\ UNCHANGED <<P, P0, norm>>

\* the settling as it would be if a failed request were sent again
FetchSettledRetry(call, resp) ==
  LET r == GetPrices(resp)
  IN  IF r.err.kind # "none"
      THEN IF call.fetches < 3
           THEN [call EXCEPT !.pc = "fetching", !.fetches = @ + 1]
           ELSE [call EXCEPT !.pc = "failed", !.resp = resp, !.err = r.err,
                             !.status = r.status]
      ELSE [call EXCEPT !.pc = IF call.kind = "getPrices" THEN "done" ELSE "havePrices",
                        !.resp = resp, !.src = "fetched", !.cat = r.cat]

\* the call after the request has settled with resp and getPrices has run on
FetchSettled(call, resp) ==
  LET r == GetPrices(resp)
  IN  IF r.err.kind # "none"
      THEN [call EXCEPT !.pc = "failed", !.resp = resp, !.err = r.err,
                        !.status = r.status]
      ELSE [call EXCEPT !.pc = IF call.kind = "getPrices" THEN "done" ELSE "havePrices",
                        !.resp = resp, !.src = "fetched", !.cat = r.cat]

\* lines 49-74, and the return of line 40
FetchSettles(c, resp) ==
  /\ calls[c].pc = "fetching"
  /\ calls' = [calls EXCEPT ![c] = FetchSettled(calls[c], resp)]
  /\ UNCHANGED <<P, P0, norm>>

\* line 17: await parseItems(profileData)
ParseItems(c) ==
  /\ calls[c].kind = "getNetworth"
  /\ calls[c].pc = "havePrices"
  /\ calls' = [calls EXCEPT ![c] = [@ EXCEPT !.pc = "haveItems", !.parsed = TRUE]]
  /\ UNCHANGED <<P, P0, norm>>

\* line 18 / line 30: the valuation is called with the prices object
Valuate(c) ==
  /\ \/ calls[c].kind = "getNetworth" /\ calls[c].pc = "haveItems"
     \/ calls[c].kind = "getItemNetworth" /\ calls[c].pc = "havePrices"
  /\ calls' = [calls EXCEPT ![c] = [@ EXCEPT !.pc = "valuating", !.valued = TRUE]]
  /\ UNCHANGED <<P, P0, norm>>

\* line 18 / line 30: the valuation's result is returned
Return(c) ==
  /\ calls[c].pc = "valuating"
  /\ calls' = [calls EXCEPT ![c] = [@ EXCEPT !.pc = "done"]]
  /\ UNCHANGED <<P, P0, norm>>

\* the caller has its result or its error and calls again
NextCall(c) ==
  /\ calls[c].pc \in {"done", "failed"}
  /\ calls' = [calls EXCEPT ![c] = IdleCall]
  /\ UNCHANGED <<P, P0, norm>>

(***************************************************************************)
(* The two normalizations on one raw catalog                               *)
(***************************************************************************)
NotRun == [run |-> FALSE, err |-> NoError, cat |-> Primitive(JSUndefined)]

\* parsePrices(obj) for a truthy obj: what it throws, and the object it returns
SuppliedResult(obj) ==
  LET r == ParsePrices(obj) IN [run |-> TRUE, err |-> r.err, cat |-> r.obj]

\* getPrices() when the request settles with data
FetchedResult(data) ==
  LET r == GetPrices(FetchOk(data)) IN [run |-> TRUE, err |-> r.err, cat |-> r.cat]

\* raw is never written: each run gets its own copy of it.
\* sup: raw passed as options.prices; fet: raw served as prices.json;
\* sup2: the catalog sup returned passed as options.prices again;
\* fet2: the catalog getPrices returned passed as options.prices.
NormIdle ==
  [raw |-> Object(<<>>), sup |-> NotRun, fet |-> NotRun, sup2 |-> NotRun, fet2 |-> NotRun]

NormalizeSupplied ==
  /\ ~norm.sup.run
  /\ norm' = [norm EXCEPT !.sup = SuppliedResult(norm.raw)]
  /\ UNCHANGED <<P, P0, calls>>

NormalizeFetched ==
  /\ ~norm.fet.run
  /\ norm' = [norm EXCEPT !.fet = FetchedResult(norm.raw)]
  /\ UNCHANGED <<P, P0, calls>>

NormalizeSuppliedAgain ==
  /\ norm.sup.run /\ norm.sup.err.kind = "none" /\ ~norm.sup2.run
  /\ norm' = [norm EXCEPT !.sup2 = SuppliedResult(norm.sup.cat)]
  /\ UNCHANGED <<P, P0, calls>>

SupplyFetched ==
  /\ norm.fet.run /\ norm.fet.err.kind = "none" /\ ~norm.fet2.run
  /\ norm' = [norm EXCEPT !.fet2 = SuppliedResult(norm.fet.cat)]
  /\ UNCHANGED <<P, P0, calls>>

InitNorm ==
  /\ norm \in {[NormIdle EXCEPT !.raw = r] : r \in ObjectsUpTo(MaxKeys, RawValues)}
  /\ P0 = Primitive(JSUndefined)
  /\ P = P0
  /\ calls = [c \in Calls |-> IdleCall]

NextNorm ==
  \/ NormalizeSupplied
  \/ NormalizeFetched
  \/ NormalizeSuppliedAgain
  \/ SupplyFetched

SpecNorm == InitNorm /\ [][NextNorm]_vars

(***************************************************************************)
(* Specifications of the calls                                             *)
(***************************************************************************)

\* One caller, one call at a time, every input.
Init ==
  /\ P0 \in SharedPrices
  /\ P = P0
  /\ calls = [c \in Calls |-> IdleCall]
  /\ norm = NormIdle

Next ==
  \/ \E supplied \in BOOLEAN : GetNetworth(1, supplied)
  \/ \E item \in Items, supplied \in BOOLEAN : GetItemNetworth(1, item, supplied)
  \/ GetPricesCall(1)
  \/ \E resp \in FetchOutcomes : FetchSettles(1, resp)
  \/ ParseItems(1)
  \/ Valuate(1)
  \/ Return(1)
  \/ NextCall(1)

Spec == Init /\ [][Next]_vars

\* Concurrent calls that were all given the caller's one catalog object.
InitConc ==
  /\ P0 \in ObjectsUpTo(MaxSharedKeys, SharedValues)
  /\ P = P0
  /\ calls = [c \in Calls |-> IdleCall]
  /\ norm = NormIdle

NextConc ==
  \E c \in Calls :
    \/ GetNetworth(c, TRUE)
    \/ GetItemNetworth(c, ItemObject(JSStr("SKYBLOCK_MENU"), Absent), TRUE)
    \/ ParseItems(c)
    \/ Valuate(c)
    \/ Return(c)

SpecConc == InitConc /\ [][NextConc]_vars

(***************************************************************************)
(* Vocabulary of the properties                                            *)
(***************************************************************************)
IsLower(k) == k = ToLower(k)

NonEmptyObject(p) == p.t = "object" /\ Len(p.entries) > 0

\* key -> price content of an object, and its restriction to lowercase keys
Content(obj) == {<<obj.entries[i].k, obj.entries[i].v>> : i \in 1..Len(obj.entries)}
LowerContent(obj) == {kv \in Content(obj) : IsLower(kv[1])}

\* the positions of the keys of obj that lowercase to low
Spellings(obj, low) == {i \in 1..Len(obj.entries) : ToLower(obj.entries[i].k) = low}
LowerKeys(obj) == {ToLower(obj.entries[i].k) : i \in 1..Len(obj.entries)}
Collides(obj, low) == Cardinality(Spellings(obj, low)) >= 2
NoCollision(obj) == \A low \in LowerKeys(obj) : ~Collides(obj, low)

First(S) == CHOOSE i \in S : \A j \in S : i <= j
Last(S) == CHOOSE i \in S : \A j \in S : j <= i

\* the item has neither a tag field nor an exp field
LacksBothFields(item) ==
  item.t # "object" \/ (item.tag.t = "absent" /\ item.exp.t = "absent")

\* the call was a getNetworth or getItemNetworth call that got as far as parsePrices
ReachedParsePrices(call) ==
  \/ call.kind = "getNetworth"
  \/ call.kind = "getItemNetworth" /\ ~ItemRejected(call.item)

FetchFailed(call) == call.resp.kind \in {"http", "transport"}

(***************************************************************************)
(* C1                                                                      *)
(***************************************************************************)
\* C1: getItemNetworth fails with the NetworthError 'Invalid item provided'
\* exactly when the item has neither a tag field nor an exp field, whatever
\* the value of a field it has.
C1_RejectedExactlyWithoutFields ==
  \A c \in Calls :
    calls[c].kind = "getItemNetworth" =>
      ((calls[c].err = NetworthError("Invalid item provided"))
         <=> LacksBothFields(calls[c].item))

(***************************************************************************)
(* C2                                                                      *)
(***************************************************************************)
\* C2: a call whose options.prices is given (not undefined or null) and is
\* not a non-empty keyed structure fails with the NetworthError 'Invalid
\* prices data provided', with no other error, and is never accepted.
C2_BadPricesAreInvalidInput ==
  \A c \in Calls :
    (/\ ReachedParsePrices(calls[c]) /\ calls[c].supplied
     /\ P0.t \notin {"undefined", "null"} /\ ~NonEmptyObject(P0)) =>
      /\ calls[c].pc = "failed"
      /\ calls[c].err = NetworthError("Invalid prices data provided")

(***************************************************************************)
(* C3                                                                      *)
(***************************************************************************)
\* every raw key is there in lowercase, and no key is not lowercase
Lowercased(raw, cat) ==
  /\ \A i \in 1..Len(raw.entries) : HasKey(cat.entries, ToLower(raw.entries[i].k))
  /\ \A j \in 1..Len(cat.entries) : IsLower(cat.entries[j].k)

\* C3: for a flat raw catalog with a key, at any position, that is not
\* lowercase, the catalog parsePrices hands on and the catalog getPrices
\* returns hold the lowercase of every raw key and no key that is not lowercase.
C3_EveryKeyLowercased ==
  (/\ NonEmptyObject(norm.raw) /\ AllNumbers(norm.raw)
   /\ \E i \in 1..Len(norm.raw.entries) : ~IsLower(norm.raw.entries[i].k)) =>
    /\ norm.sup.run => norm.sup.err.kind = "none" /\ Lowercased(norm.raw, norm.sup.cat)
    /\ norm.fet.run => norm.fet.err.kind = "none" /\ Lowercased(norm.raw, norm.fet.cat)

(***************************************************************************)
(* C4                                                                      *)
(***************************************************************************)
\* C4: whatever calls were made with it, successful or failed, the caller's
\* catalog has exactly the keys and the values it had before them.
C4_SuppliedCatalogNeverMutated == P = P0

(***************************************************************************)
(* C5                                                                      *)
(***************************************************************************)
\* C5, as claimed: a raw structure of either shape is accepted when supplied
\* as options.prices and gives the catalog it gives when served to getPrices
\* (compared here on the lowercase keys, the ones a valuation looks up).
C5_SuppliedMatchesFetched ==
  (/\ NonEmptyObject(norm.raw)
   /\ AllNumbers(norm.raw) \/ AllPriceObjects(norm.raw)
   /\ norm.sup.run /\ norm.fet.run) =>
    /\ norm.sup.err.kind = "none"
    /\ norm.fet.err.kind = "none"
    /\ LowerContent(norm.sup.cat) = LowerContent(norm.fet.cat)

\* the prices getPrices extracts from an object-valued raw structure
Extracted(raw, cat) ==
  /\ LowerKeys(raw) = {kv[1] : kv \in Content(cat)}
  /\ \A kv \in Content(cat) :
       \E i \in Spellings(raw, kv[1]) : kv[2] = JSNum(raw.entries[i].v.n)

\* C5, amended: a flat raw catalog in which no two keys lowercase to the same
\* key gives, on both paths, catalogs that agree on every lowercase key, and
\* the very same catalog when its first key is lowercase; an object-valued
\* raw structure is rejected with 'Invalid prices data provided' when it is
\* supplied, while getPrices extracts the price of each entry.
C5_PathsAgreeOnFlatCatalogs ==
  /\ (/\ NonEmptyObject(norm.raw) /\ AllNumbers(norm.raw) /\ NoCollision(norm.raw)
      /\ norm.sup.run /\ norm.fet.run) =>
       /\ norm.sup.err.kind = "none"
       /\ norm.fet.err.kind = "none"
       /\ LowerContent(norm.sup.cat) = LowerContent(norm.fet.cat)
       /\ IsLower(norm.raw.entries[1].k) =>
            norm.sup.cat = norm.raw /\ norm.fet.cat = norm.raw
  /\ (NonEmptyObject(norm.raw) /\ AllPriceObjects(norm.raw)) =>
       /\ norm.sup.run => norm.sup.err = NetworthError("Invalid prices data provided")
       /\ norm.fet.run => norm.fet.err.kind = "none" /\ Extracted(norm.raw, norm.fet.cat)

C5_Witness ==
  /\ NonEmptyObject(norm.raw) /\ AllPriceObjects(norm.raw)
  /\ norm.sup.run /\ norm.sup.err.kind = "NetworthError"
  /\ norm.fet.run /\ norm.fet.err.kind = "none"
  /\ \E i \in 1..Len(norm.raw.entries) : ~IsLower(norm.raw.entries[i].k)

(***************************************************************************)
(* C6                                                                      *)
(***************************************************************************)
Canonical(obj) ==
  /\ NonEmptyObject(obj) /\ AllNumbers(obj)
  /\ \A i \in 1..Len(obj.entries) : IsLower(obj.entries[i].k)

\* C6: normalizing a canonical catalog, on either path, gives a catalog with
\* the same key -> price content; and normalizing the normalized form of a
\* valid flat catalog once more changes no key's price.
C6_NormalizationIdempotent ==
  /\ Canonical(norm.raw) =>
       /\ norm.sup.run =>
            norm.sup.err.kind = "none" /\ Content(norm.sup.cat) = Content(norm.raw)
       /\ norm.fet.run =>
            norm.fet.err.kind = "none" /\ Content(norm.fet.cat) = Content(norm.raw)
  /\ (NonEmptyObject(norm.raw) /\ AllNumbers(norm.raw)) =>
       /\ norm.sup.run => norm.sup.err.kind = "none"
       /\ norm.sup2.run =>
            norm.sup2.err.kind = "none" /\ Content(norm.sup2.cat) = Content(norm.sup.cat)
       /\ norm.fet2.run =>
            norm.fet2.err.kind = "none" /\ Content(norm.fet2.cat) = Content(norm.fet.cat)

C6_Witness ==
  /\ AllNumbers(norm.raw) /\ Len(norm.raw.entries) >= 2
  /\ ~IsLower(norm.raw.entries[1].k) /\ ~NoCollision(norm.raw)
  /\ norm.sup2.run /\ norm.fet2.run
  /\ norm.sup.cat # norm.raw

(***************************************************************************)
(* C7                                                                      *)
(***************************************************************************)
\* C7: a call whose request for the prices failed has failed with a
\* PricesError and holds no catalog and no result; the error carries the
\* response's status when there is a response and 'Unknown' when there is none.
C7_FetchFailureIsPricesError ==
  \A c \in Calls :
    FetchFailed(calls[c]) =>
      /\ calls[c].pc = "failed"
      /\ calls[c].err.kind = "PricesError"
      /\ calls[c].src = "none" /\ ~calls[c].valued
      /\ calls[c].resp.kind = "http" => calls[c].status = StatusText(calls[c].resp.status)
      /\ calls[c].resp.kind = "transport" => calls[c].status = "Unknown"

C7_Witness ==
  \E c \in Calls :
    /\ calls[c].kind = "getPrices"
    /\ calls[c].resp = FetchHttpError(503)
    /\ calls[c].status = "503"

(***************************************************************************)
(* C8                                                                      *)
(***************************************************************************)
\* C8: a call makes no request when a catalog is supplied or the item is
\* rejected, exactly one when no catalog is supplied, and never more than
\* one; after a failed request neither parseItems nor the valuation runs.
C8_AtMostOneFetch ==
  \A c \in Calls :
    /\ calls[c].fetches <= 1
    /\ (calls[c].supplied /\ Truthy(P0)) => calls[c].fetches = 0
    /\ (calls[c].kind = "getItemNetworth" /\ ItemRejected(calls[c].item)) =>
         calls[c].fetches = 0
    /\ (ReachedParsePrices(calls[c]) /\ ~calls[c].supplied) => calls[c].fetches = 1
    /\ FetchFailed(calls[c]) => ~calls[c].parsed /\ ~calls[c].valued

C8_Witness ==
  \E c \in Calls :
    /\ calls[c].kind = "getNetworth" /\ ~calls[c].supplied
    /\ calls[c].resp = FetchTransportError
    /\ calls[c].pc = "failed" /\ calls[c].fetches = 1

(***************************************************************************)
(* C9                                                                      *)
(***************************************************************************)
HoldsSupplied(call) ==
  call.src = "supplied" /\ call.pc \in {"havePrices", "haveItems", "valuating"}

\* C9: however calls given the same flat catalog object interleave, each of
\* them holds, from parsePrices to the end of its valuation, a catalog with
\* the lowercase-key -> price content it would have had alone on its own
\* copy of the original catalog.
C9_InterleavedCallsSeeSameContent ==
  AllNumbers(P0) =>
    \A c \in Calls :
      HoldsSupplied(calls[c]) =>
        LowerContent(P) = LowerContent(SuppliedResult(P0).cat)

C9_Witness ==
  /\ AllNumbers(P0) /\ ~NoCollision(P0) /\ P # P0
  /\ \E c, d \in Calls :
       /\ c # d
       /\ calls[c].pc = "valuating" /\ calls[c].src = "supplied"
       /\ calls[d].pc = "havePrices" /\ calls[d].src = "supplied"

(***************************************************************************)
(* C10                                                                     *)
(***************************************************************************)
PriceAt(obj, i) == obj.entries[i].v

\* C10, as claimed: when keys of a flat raw catalog collide after
\* lowercasing, the lowercase key gets the price of the first of them, on
\* both paths.
C10_FirstSeenWins ==
  (NonEmptyObject(norm.raw) /\ AllNumbers(norm.raw)) =>
    \A low \in LowerKeys(norm.raw) :
      Collides(norm.raw, low) =>
        /\ norm.sup.run =>
             Lookup(norm.sup.cat.entries, low) = PriceAt(norm.raw, First(Spellings(norm.raw, low)))
        /\ norm.fet.run =>
             Lookup(norm.fet.cat.entries, low) = PriceAt(norm.raw, First(Spellings(norm.raw, low)))

\* C10, amended: when the first key of a flat raw catalog is not lowercase,
\* a lowercase key that several keys collide on gets, from getPrices, the
\* price of the last of them and, from parsePrices, the price of the last of
\* them that is not itself lowercase; when the first key is lowercase both
\* paths return the catalog as it is.  From an object-valued structure
\* getPrices takes, for every lowercase key, the price of the last entry.
C10_LastWrittenWins ==
  /\ (NonEmptyObject(norm.raw) /\ AllPriceObjects(norm.raw) /\ norm.fet.run) =>
       \A low \in LowerKeys(norm.raw) :
         Lookup(norm.fet.cat.entries, low) =
           JSNum(PriceAt(norm.raw, Last(Spellings(norm.raw, low))).n)
  /\ (NonEmptyObject(norm.raw) /\ AllNumbers(norm.raw)) =>
    IF IsLower(norm.raw.entries[1].k)
    THEN /\ norm.sup.run => norm.sup.cat = norm.raw
         /\ norm.fet.run => norm.fet.cat = norm.raw
    ELSE \A low \in LowerKeys(norm.raw) :
           Collides(norm.raw, low) =>
             /\ norm.fet.run =>
                  Lookup(norm.fet.cat.entries, low) = PriceAt(norm.raw, Last(Spellings(norm.raw, low)))
             /\ norm.sup.run =>
                  Lookup(norm.sup.cat.entries, low) =
                    PriceAt(norm.raw,
                            Last({i \in Spellings(norm.raw, low) : norm.raw.entries[i].k # low}))

C10_Witness ==
  /\ AllNumbers(norm.raw) /\ Len(norm.raw.entries) >= 2
  /\ ~IsLower(norm.raw.entries[1].k)
  /\ norm.sup.run /\ norm.fet.run
  /\ \E low \in LowerKeys(norm.raw) :
       /\ Collides(norm.raw, low)
       /\ Lookup(norm.fet.cat.entries, low) # PriceAt(norm.raw, First(Spellings(norm.raw, low)))
       /\ Lookup(norm.sup.cat.entries, low) # Lookup(norm.fet.cat.entries, low)

====
